---- MODULE Spec2Model ----
\* A model of the n8n node extractor: the single-package extractor
\* (src/src/extractors/node-extractor.ts), the multi-package extractor and the
\* shared base class (src/unnamed/part_003, src/unnamed/part_002), and the
\* dependency staging of src/src/utils/npm-utils.ts.
\*
\* Strings are sequences of tokens.  The token alphabet is prefix-free
\* ("n8n-nodes-", "file:", "fa:", "src/", "dist/", "lib/", ".ts", ".js", "@",
\* "/", ".", "..", and plain names), so two token sequences are equal exactly
\* when the strings they spell are equal.
EXTENDS Integers, Sequences, FiniteSets, TLC

VARIABLES
    \* ---- one extraction run (NodeExtractor.extract / MultipleNodeExtractor) ----
    mode,           \* "single" | "multi": which extractor class runs
    requested,      \* the requested package names, in request order
    declared,       \* per package: its manifest's n8n.nodes list
    manifestKind,   \* per package: "absent" (no manifest), or n8n.nodes "list", "missing", "notalist"
    disk,           \* the staged plugin files: <<pkg, path>> |-> "ok" | "bad"
    pc,             \* the stage extract() is at
    pending,        \* the completion extract() holds while its finally block runs
    outcome,        \* what the promise returned by extract() settled with
    extractedItems, \* BaseExtractor.extractedItems
    modulePaths,    \* the process-wide module.paths
    tempDir,        \* TRUE while the working directory exists on disk
    cleanupRuns,    \* how often cleanup() ran in this call of extract
    loaded,         \* the plugin files require()d so far
    fault,          \* the stage the environment made fail, "none" if none
    overtaken,      \* multi: some entry settled before an earlier entry of its package
    pkgTask,        \* multi: per package, the state of its extractPromises entry
    nodeTask,       \* multi: per package, per declared entry, its nodePromises entry
    results,        \* multi: the `results` record of extractInternal
    sEntry,         \* single: index of the declared entry findNodes is at
    sVar,           \* single: index of the variation findNodes is at
    sNodes,         \* single: the `nodes` list of findNodes
    artifact,       \* what saveResults wrote after the run
    pkgOvertaken,   \* multi: some package task finished before an earlier package's
    registryStatus, \* single: the status of the registry's response, 0 before it
    loadEnv,        \* module.paths as it was at the latest require(), <<>> before
    \* ---- the candidate probe of one declared entry (multi findNodes) ----
    locPath,        \* the declared entry path
    locDisk,        \* the set of candidate paths that exist
    locChecks,      \* checkResults, positionally; "pending" while in flight
    locOrder,       \* the order in which the checks completed
    locHanded,      \* the file handed to extractCompleteNode
    \* ---- generateNodeName on two inputs ----
    nameIn,         \* two pairs [pkg, name]
    nameOut,        \* the two generated names
    \* ---- icon normalisation of one raw description ----
    iconIn,         \* the raw description and where its module lives
    iconOut,        \* the final record's icon fields
    \* ---- generateIconUrl on one icon reference ----
    urlIn,          \* [iconPath, packageName, nodePath]
    urlOut,         \* the generated URL
    \* ---- loadNodeModule on one module file ----
    loadIn,         \* how long require() runs and what the module is like
    loadSt,         \* the timer, the promise and the position of the attempt
    \* ---- one extractor object over several calls of extract, then saveResults ----
    svMode,         \* "single" | "multi"
    svItems,        \* extractedItems
    svCalls,        \* the number of extract calls so far
    svArtifact,     \* what saveResults wrote
    \* ---- resolveNodeClass on one loaded module ----
    clsIn,          \* the module's exports, in enumeration order
    clsOut,         \* the resolved class and what the attempt returned
    \* ---- setupN8nDependencies on one unpacked package ----
    depIn,          \* the package.json found in the package directory
    depOut,         \* the package.json written, and how far the function got
    \* ---- two extractors created without a tempDir, on one machine ----
    clock,          \* Date.now(), in milliseconds since the first construction
    extractors,     \* per extractor: how far it is, and its tempDir
    tmpFs           \* os.tmpdir(): directory |-> the extractors whose files it holds

runVars == <<mode, requested, declared, manifestKind, disk, pc, pending, outcome, extractedItems,
             modulePaths, tempDir, cleanupRuns, loaded, fault, overtaken, pkgTask, nodeTask, results,
             sEntry, sVar, sNodes, artifact, pkgOvertaken, registryStatus, loadEnv>>
locVars == <<locPath, locDisk, locChecks, locOrder, locHanded>>
nameVars == <<nameIn, nameOut>>
iconVars == <<iconIn, iconOut>>
urlVars == <<urlIn, urlOut>>
loadVars == <<loadIn, loadSt>>
saveVars == <<svMode, svItems, svCalls, svArtifact>>
clsVars == <<clsIn, clsOut>>
depVars == <<depIn, depOut>>
dirVars == <<clock, extractors, tmpFs>>
vars == <<runVars, locVars, nameVars, iconVars, urlVars, loadVars, saveVars, clsVars, depVars, dirVars>>

-----------------------------------------------------------------------------
\* Strings as token sequences

Empty == <<>>

StartsWith(s, t) == Len(s) >= 1 /\ s[1] = t

StartsWith2(s, t, u) == Len(s) >= 2 /\ s[1] = t /\ s[2] = u

Includes(s, t) == \E i \in 1..Len(s) : s[i] = t

IndexOf(s, t) == IF Includes(s, t) THEN CHOOSE i \in 1..Len(s) : s[i] = t /\ \A j \in 1..(i-1) : s[j] # t
                 ELSE 0

\* String.prototype.replace with a string pattern: the first occurrence only.
ReplaceFirst(s, a, b) ==
    IF Includes(s, a) THEN [s EXCEPT ![IndexOf(s, a)] = b] ELSE s

Drop(s, n) == SubSeq(s, n + 1, Len(s))

-----------------------------------------------------------------------------
\* generateNodeName

\* packageName.replace(/^@[^/]+\//, ''): a leading "@", one or more tokens that
\* are not "/", then "/".
StripScope(packageName) ==
    IF StartsWith(packageName, "@") /\ IndexOf(packageName, "/") >= 3
    THEN Drop(packageName, IndexOf(packageName, "/"))
    ELSE packageName

\* .replace(/^n8n-nodes-/, '')
StripPrefix(s) == IF StartsWith(s, "n8n-nodes-") THEN Drop(s, 1) ELSE s

generateNodeName(originalName, packageName) ==
    <<"n8n-nodes-">> \o StripPrefix(StripScope(packageName)) \o <<".">> \o originalName

-----------------------------------------------------------------------------
\* Paths (node's path module), on lists of segments; a segment is a token sequence

RECURSIVE SplitSegs(_)
SplitSegs(s) ==
    IF ~Includes(s, "/") THEN <<s>>
    ELSE <<SubSeq(s, 1, IndexOf(s, "/") - 1)>> \o SplitSegs(Drop(s, IndexOf(s, "/")))

RECURSIVE JoinSegs(_)
JoinSegs(segs) ==
    IF segs = <<>> THEN Empty
    ELSE IF Len(segs) = 1 THEN segs[1]
    ELSE segs[1] \o <<"/">> \o JoinSegs(Tail(segs))

\* path.resolve(dir, rel) for an absolute, normalised dir and a relative rel
RECURSIVE ResolveSegs(_, _)
ResolveSegs(stack, segs) ==
    IF segs = <<>> THEN stack
    ELSE LET h == Head(segs)
             next == IF h = Empty \/ h = <<".">> THEN stack
                     ELSE IF h = <<"..">>
                          THEN (IF stack = <<>> THEN stack ELSE SubSeq(stack, 1, Len(stack) - 1))
                          ELSE Append(stack, h)
         IN  ResolveSegs(next, Tail(segs))

RECURSIVE CommonLen(_, _)
CommonLen(a, b) ==
    IF a = <<>> \/ b = <<>> THEN 0
    ELSE IF Head(a) = Head(b) THEN 1 + CommonLen(Tail(a), Tail(b)) ELSE 0

\* path.relative(from, to) for absolute, normalised paths
RelativeSegs(from, to) ==
    LET k == CommonLen(from, to)
    IN  [i \in 1..(Len(from) - k) |-> <<"..">>] \o SubSeq(to, k + 1, Len(to))

\* path.dirname of a file given by its segments
DirnameSegs(file) == SubSeq(file, 1, Len(file) - 1)

-----------------------------------------------------------------------------
\* Icons (BaseExtractor.generateIconUrl, processNodeIcons, extractCompleteNode)

\* s.startsWith('file:') ? s.replace('file:', '') : s
StripFile(s) == IF StartsWith(s, "file:") THEN Drop(s, 1) ELSE s

\* A plausible slip: a relative reference is not resolved against the module's
\* directory.
generateIconUrlPassThrough(iconPath, packageName, nodePath, packagePath) ==
    LET normalizedIconPath == StripFile(iconPath)
        resolvedPath == IF StartsWith(normalizedIconPath, "/")
                        THEN Drop(normalizedIconPath, 1)
                        ELSE normalizedIconPath
    IN  <<"icons/">> \o StripScope(packageName) \o <<"/">> \o resolvedPath

\* A plausible slip: the package id of the URL is cleaned like that of the name.
generateIconUrlNameId(iconPath, packageName, nodePath, packagePath) ==
    LET normalizedIconPath == StripFile(iconPath)
        resolvedPath ==
            IF StartsWith(normalizedIconPath, "/")
            THEN Drop(normalizedIconPath, 1)
            ELSE IF \/ ~Includes(normalizedIconPath, "/")
                    \/ StartsWith2(normalizedIconPath, ".", "/")
                    \/ StartsWith2(normalizedIconPath, "..", "/")
                 THEN JoinSegs(RelativeSegs(packagePath,
                                            ResolveSegs(DirnameSegs(nodePath),
                                                        SplitSegs(normalizedIconPath))))
                 ELSE normalizedIconPath
    IN  <<"icons/">> \o StripPrefix(StripScope(packageName)) \o <<"/">> \o resolvedPath

\* nodePath and packagePath are absolute segment lists
generateIconUrl(iconPath, packageName, nodePath, packagePath) ==
    LET cleanPackageName == StripScope(packageName)
        nodeDir == DirnameSegs(nodePath)
        normalizedIconPath == StripFile(iconPath)
        resolvedPath ==
            IF StartsWith(normalizedIconPath, "/")
            THEN Drop(normalizedIconPath, 1)
            ELSE IF \/ ~Includes(normalizedIconPath, "/")
                    \/ StartsWith2(normalizedIconPath, ".", "/")
                    \/ StartsWith2(normalizedIconPath, "..", "/")
                 THEN JoinSegs(RelativeSegs(packagePath,
                                            ResolveSegs(nodeDir, SplitSegs(normalizedIconPath))))
                 ELSE normalizedIconPath
    IN  <<"icons/">> \o cleanPackageName \o <<"/">> \o resolvedPath

\* The icon field of a description: absent, a string, or a light/dark object.
\* An absent or empty string is the empty token sequence (both are falsy).
NoIcon == [t |-> "none", s |-> Empty, light |-> Empty, dark |-> Empty]

StrIcon(s) == [t |-> "str", s |-> s, light |-> Empty, dark |-> Empty]

ObjIcon(l, d) == [t |-> "obj", s |-> Empty, light |-> l, dark |-> d]

processNodeIcons(description, packageName, filePath, packagePath) ==
    LET ic == description.icon
        url(p) == generateIconUrl(p, packageName, filePath, packagePath)
        isStr == ic.t = "str" /\ ic.s # Empty
        isPair == ic.t = "obj" /\ (ic.light # Empty \/ ic.dark # Empty)
        icon == IF isStr /\ StartsWith(ic.s, "fa:") THEN ic.s ELSE Empty
        iconLightUrl == IF isPair /\ ic.light # Empty THEN url(StripFile(ic.light)) ELSE Empty
        iconDarkUrl == IF isPair /\ ic.dark # Empty THEN url(StripFile(ic.dark)) ELSE Empty
        fromIcon == IF isStr /\ ~StartsWith(ic.s, "fa:") THEN url(StripFile(ic.s))
                    ELSE IF iconDarkUrl # Empty THEN iconDarkUrl
                    ELSE iconLightUrl
        iconUrl == IF description.iconUrl # Empty THEN url(description.iconUrl) ELSE fromIcon
    IN  [icon |-> icon, iconUrl |-> iconUrl,
         iconLightUrl |-> iconLightUrl, iconDarkUrl |-> iconDarkUrl]

\* A plausible slip: the light URL is applied after the dark one.
ApplyIconInfoLightLast(description, iconInfo) ==
    LET c0 == [icon |-> description.icon, iconUrl |-> description.iconUrl]
        c1 == IF iconInfo.icon # Empty
              THEN [icon |-> StrIcon(iconInfo.icon),
                    iconUrl |-> IF StartsWith(iconInfo.icon, "fa:") THEN Empty ELSE c0.iconUrl]
              ELSE c0
        c2 == IF iconInfo.iconUrl # Empty THEN [c1 EXCEPT !.iconUrl = iconInfo.iconUrl] ELSE c1
        c3 == IF iconInfo.iconDarkUrl # Empty THEN [c2 EXCEPT !.iconUrl = iconInfo.iconDarkUrl] ELSE c2
        c4 == IF iconInfo.iconLightUrl # Empty THEN [c3 EXCEPT !.iconUrl = iconInfo.iconLightUrl] ELSE c3
    IN  c4

\* extractCompleteNode, from the spread of the raw description to the return:
\* the icon and iconUrl fields of completeDescription
ApplyIconInfo(description, iconInfo) ==
    LET c0 == [icon |-> description.icon, iconUrl |-> description.iconUrl]
        c1 == IF iconInfo.icon # Empty
              THEN [icon |-> StrIcon(iconInfo.icon),
                    iconUrl |-> IF StartsWith(iconInfo.icon, "fa:") THEN Empty ELSE c0.iconUrl]
              ELSE c0
        c2 == IF iconInfo.iconUrl # Empty THEN [c1 EXCEPT !.iconUrl = iconInfo.iconUrl] ELSE c1
        c3 == IF iconInfo.iconLightUrl # Empty THEN [c2 EXCEPT !.iconUrl = iconInfo.iconLightUrl] ELSE c2
        c4 == IF iconInfo.iconDarkUrl # Empty THEN [c3 EXCEPT !.iconUrl = iconInfo.iconDarkUrl] ELSE c3
    IN  c4

NormalizeIcons(description, packageName, filePath, packagePath) ==
    ApplyIconInfo(description, processNodeIcons(description, packageName, filePath, packagePath))

-----------------------------------------------------------------------------
\* Bounds of the run model

\* plugin entries declared by the manifests of one run, all packages together
MaxEntries == 2

\* plugin files present in the staged tree of one run
MaxFiles == 2

-----------------------------------------------------------------------------
\* Staged contents

\* Declared entry paths the run model draws from: one with two different
\* candidate files (A.ts, then A.js), one whose four variations all coincide.
\* The probe of a single entry, with every kind of variation, is LocSpec below.
DeclPaths == { <<"A", ".ts">>, <<"dist/", "B", ".js">> }

\* The package lists a run is started with: NodeExtractor takes one package,
\* MultipleNodeExtractor one or two (packages are numbered in request order).
Requests(m) == IF m = "single" THEN { <<1>> } ELSE { <<1>>, <<1, 2>> }

\* A staged plugin file is healthy ("ok") or has a recoverable problem ("bad").
Contents == {"ok", "bad"}

\* What a module does when it is loaded and described: a healthy one does
\* everything, a problematic one fails in one of five ways.
ProblemKinds == {"loadfail", "noclass", "ctorthrow", "nodesc", "emptyname"}

KindsOf(content) == IF content = "ok" THEN {"ok"} ELSE ProblemKinds

ModuleOf(kind) ==
    [loads    |-> kind # "loadfail",
     hasClass |-> kind # "noclass",
     ctorOk   |-> kind # "ctorthrow",
     hasDesc  |-> kind # "nodesc",
     hasName  |-> kind # "emptyname"]

SeqsUpTo(S, n) == UNION { [1..k -> S] : k \in 0..n }

RECURSIVE SumLen(_, _)
SumLen(d, n) == IF n = 0 THEN 0 ELSE Len(d[n]) + SumLen(d, n - 1)

\* the four candidate paths of one declared entry, in the order the code lists them
Variations(nodePath) ==
    << nodePath,
       ReplaceFirst(nodePath, ".ts", ".js"),
       ReplaceFirst(nodePath, "src/", "dist/"),
       ReplaceFirst(nodePath, "src/", "lib/") >>

\* every candidate file of every declared entry, as <<package, path>>
CandFiles(d, n) ==
    UNION { { <<e[1], Variations(d[e[1]][e[2]])[j]>> : j \in 1..4 } :
            e \in { x \in (1..n) \X (1..MaxEntries) : x[2] <= Len(d[x[1]]) } }

\* fs.access(fullPath) resolves
Exists(dsk, p, path) == <<p, path>> \in DOMAIN dsk

\* The n8n.nodes value of a manifest: a list of paths, absent, or a value that
\* is truthy but no list (an object, say).
ManifestKinds == {"list", "missing", "notalist", "absent"}

\* fs.readFile(packageJsonPath) and JSON.parse succeed: the working directory
\* is there and the package has a manifest in it
Readable(dirThere, kind) == dirThere /\ kind # "absent"

List(v) == [isList |-> TRUE, v |-> v]

NotAList == [isList |-> FALSE, v |-> <<>>]

\* A plausible slip: packageJson.n8n.nodes is returned without the guard, so
\* an absent value reaches the caller.
getDeclaredNodesUnguarded(readable, kind, nodes) ==
    IF ~readable THEN List(<<>>)
    ELSE IF kind = "list" THEN List(nodes)
    ELSE NotAList

\* A plausible slip: no catch block, an unreadable manifest fails the caller.
getDeclaredNodesNoCatch(readable, kind, nodes) ==
    IF ~readable THEN NotAList
    ELSE IF kind = "missing" THEN List(<<>>)
    ELSE IF kind = "notalist" THEN NotAList
    ELSE List(nodes)

\* getDeclaredNodes: [] for an unreadable manifest or an absent n8n.nodes,
\* otherwise the value as it is
getDeclaredNodes(readable, kind, nodes) ==
    IF ~readable THEN List(<<>>)
    ELSE IF kind = "missing" THEN List(<<>>)
    ELSE IF kind = "notalist" THEN NotAList
    ELSE List(nodes)

-----------------------------------------------------------------------------
\* Values

\* a description is identified by the module it was read from;
\* Null is the null result, Unset a slot not written yet
Desc(p, file) == [pkg |-> p, file |-> file]

Null == [pkg |-> 0, file |-> Empty]

Unset == [pkg |-> -1, file |-> Empty]

NoCompletion == [kind |-> "none", err |-> "", value |-> <<>>]

Resolved(v) == [kind |-> "resolved", err |-> "", value |-> v]

Rejected(e) == [kind |-> "rejected", err |-> e, value |-> <<>>]

\* extractedItems before the first successful extract: `[]` in NodeExtractor's
\* base class, not initialised in the base class of MultipleNodeExtractor
InitItems(m) == [def |-> m = "single", v |-> <<>>]

Items(v) == [def |-> TRUE, v |-> v]

InitPaths == <<"node_modules">>

\* path.join(this.packagePath, 'node_modules') / path.join(projectPath, 'node_modules')
NodeModulesDir(m) == IF m = "single" THEN "extracted/node_modules" ELSE "project/node_modules"

-----------------------------------------------------------------------------
\* The describer

\* A plausible slip: the includes test is inverted, the directory is added only
\* where it already is.
PrependPathInverted(paths, dir) ==
    IF \E i \in 1..Len(paths) : paths[i] = dir THEN <<dir>> \o paths ELSE paths

\* if (!module.paths.includes(nodeModulesPath)) module.paths.unshift(nodeModulesPath)
PrependPath(paths, dir) ==
    IF \E i \in 1..Len(paths) : paths[i] = dir THEN paths ELSE <<dir>> \o paths

\* module.paths.splice(0, module.paths.length, ...originalPaths)
RestorePaths(paths, originalPaths) == originalPaths

\* A plausible slip: the name check of the description is left out.
extractDescriptionNoNameCheck(p, file, kind) ==
    LET m == ModuleOf(kind)
    IN  IF ~m.loads THEN Null
        ELSE IF ~m.hasClass THEN Null
        ELSE IF ~m.ctorOk THEN Null
        ELSE IF ~m.hasDesc THEN Null
        ELSE Desc(p, file)

\* extractCompleteNode from the load to its return value: every throw inside is
\* caught by the outer catch and becomes null
extractDescription(p, file, kind) ==
    LET m == ModuleOf(kind)
    IN  IF ~m.loads THEN Null
        ELSE IF ~m.hasClass THEN Null
        ELSE IF ~m.ctorOk THEN Null
        ELSE IF ~m.hasDesc \/ ~m.hasName THEN Null
        ELSE Desc(p, file)

-----------------------------------------------------------------------------
\* The locator

\* checkResults of one entry, positionally (Promise.all keeps the input order)
CheckResults(dsk, p, nodePath) ==
    LET variations == Variations(nodePath)
    IN  [j \in 1..4 |-> [exists |-> Exists(dsk, p, variations[j]),
                         path |-> variations[j]]]

\* checkResults.find(result => result.exists): its index, 0 for undefined
FindFirstValid(checkResults) ==
    IF \E j \in 1..Len(checkResults) : checkResults[j].exists
    THEN CHOOSE j \in 1..Len(checkResults) :
            checkResults[j].exists /\ \A k \in 1..(j-1) : ~checkResults[k].exists
    ELSE 0

\* A plausible slip: results are collected in completion order.
StoreResultInCompletionOrder(tasks, i, r) ==
    LET j == CHOOSE k \in 1..Len(tasks) :
                 tasks[k].res = Unset /\ \A l \in 1..(k-1) : tasks[l].res # Unset
    IN  [tasks EXCEPT ![j].res = r]

\* Promise.all(nodePromises): the value of promise i is element i of the result
StoreResult(tasks, i, r) == [tasks EXCEPT ![i].res = r]

RECURSIVE FilterNonNull(_)
FilterNonNull(vals) ==
    IF vals = <<>> THEN <<>>
    ELSE IF Head(vals) = Null THEN FilterNonNull(Tail(vals))
    ELSE <<Head(vals)>> \o FilterNonNull(Tail(vals))

\* (await Promise.all(nodePromises)).filter(node => node !== null)
CollectNodes(tasks) == FilterNonNull([i \in 1..Len(tasks) |-> tasks[i].res])

\* A plausible slip: the key comes from a variable the package tasks share, so
\* every task writes under the package that was started last.
StoreNodesUnderSharedKey(res, p, nodes) ==
    (Len(requested) :> nodes) @@ [q \in DOMAIN res \ {Len(requested)} |-> res[q]]

\* results[packageName] = nodes
StoreNodes(res, p, nodes) == (p :> nodes) @@ res

RECURSIVE SumLens(_, _)
SumLens(res, keys) ==
    IF keys = {} THEN 0
    ELSE LET k == CHOOSE x \in keys : TRUE
         IN  Len(res[k]) + SumLens(res, keys \ {k})

\* Object.values(results).reduce((sum, nodes) => sum + nodes.length, 0)
TotalNodes(res) == SumLens(res, DOMAIN res)

NoArtifact == [kind |-> "none"]

\* saveResults of NodeExtractor's base class
saveResultsList(items) ==
    [kind |-> "list", totalNodes |-> Len(items.v), nodes |-> items.v]

\* A plausible slip: the packages are counted instead of their nodes.
saveResultsPackagesCountKeys(items) ==
    [kind |-> "packages", totalPackages |-> Cardinality(DOMAIN items.v),
     totalNodes |-> Cardinality(DOMAIN items.v), packages |-> items.v]

\* MultipleNodeExtractor.saveResults
saveResultsPackages(items) ==
    [kind |-> "packages", totalPackages |-> Cardinality(DOMAIN items.v),
     totalNodes |-> TotalNodes(items.v), packages |-> items.v]

-----------------------------------------------------------------------------
\* The stages

Statuses == {200, 404, 500}

\* getPackageInfo: any response that is not ok throws the same error
getPackageInfo(status) == IF status \in 200..299 THEN "ok" ELSE "PackageNotFound"

\* A plausible slip (an earlier revision of the file): the installer's failure
\* is logged and swallowed.
setupN8nDependenciesSwallow(installerOk) == "ok"

\* setupN8nDependencies: a failing installer is logged and re-thrown
setupN8nDependencies(installerOk) == IF installerOk THEN "ok" ELSE "DependencyInstallFailed"

\* A plausible slip: cleanup lets the error of fs.rm escape.
cleanupRethrow(rmOk) == IF rmOk THEN "normal" ELSE "CleanupFailed"

\* cleanup: the completion of the call; an error of fs.rm is caught and logged
cleanup(rmOk) == "normal"

\* try { ... } finally { await this.cleanup() }: a finally block that completes
\* normally leaves the completion of the try/catch in place
Finally(completion, finallyCompletion) ==
    IF finallyCompletion = "normal" THEN completion ELSE Rejected(finallyCompletion)

-----------------------------------------------------------------------------
\* One run of extract

NPkgs == Len(requested)

NoTasks == [p \in 1..NPkgs |-> <<>>]

InitRun ==
    /\ mode \in {"single", "multi"}
    /\ requested \in Requests(mode)
    /\ declared = [p \in 1..Len(requested) |-> <<>>]
    /\ manifestKind \in [1..Len(requested) -> ManifestKinds]
    /\ disk = <<>>
    /\ pc = "mkdir"
    /\ pending = NoCompletion
    /\ outcome = NoCompletion
    /\ extractedItems = InitItems(mode)
    /\ modulePaths = InitPaths
    /\ tempDir = FALSE
    /\ cleanupRuns = 0
    /\ loaded = {}
    /\ fault = "none"
    /\ overtaken = FALSE
    /\ pkgTask = [p \in 1..Len(requested) |-> "idle"]
    /\ nodeTask = [p \in 1..Len(requested) |-> <<>>]
    /\ results = <<>>
    /\ sEntry = 0
    /\ sVar = 0
    /\ sNodes = <<>>
    /\ artifact = NoArtifact
    /\ pkgOvertaken = FALSE
    /\ registryStatus = 0
    /\ loadEnv = <<>>

findVars == <<pkgTask, nodeTask, results, sEntry, sVar, sNodes, modulePaths, loaded, overtaken>>

\* a stage throws: the catch block re-throws, the finally block runs next
Throw(stage, e) ==
    /\ fault' = stage
    /\ pending' = Rejected(e)
    /\ pc' = "cleanup"

\* what the unpacked archive (single) or the installed tree (multi) holds
Staged ==
    \E d \in [1..NPkgs -> SeqsUpTo(DeclPaths, MaxEntries)] :
        /\ SumLen(d, NPkgs) <= MaxEntries
        /\ \E F \in SUBSET CandFiles(d, NPkgs) :
            /\ Cardinality(F) <= MaxFiles
            /\ \E k \in [F -> Contents] :
                /\ declared' = d
                /\ disk' = k
        /\ \A p \in 1..NPkgs : manifestKind[p] # "list" => d[p] = <<>>

\* fs.mkdir(this.tempDir, { recursive: true })
Mkdir ==
    /\ pc = "mkdir"
    /\ \/ /\ tempDir' = TRUE
          /\ pc' = IF mode = "single" THEN "resolve" ELSE "install"
          /\ UNCHANGED <<pending, fault>>
       \/ /\ Throw("mkdir", "MkdirFailed")
          /\ UNCHANGED tempDir
    /\ UNCHANGED <<locVars, nameVars, iconVars, dirVars, depVars, clsVars, saveVars, loadVars, urlVars, mode, requested, artifact, pkgOvertaken, registryStatus, loadEnv, declared, manifestKind, disk, outcome, extractedItems, cleanupRuns, findVars>>

\* downloadAndExtractPackage: the registry query
ResolvePackage ==
    /\ pc = "resolve"
    /\ \E status \in Statuses :
        /\ registryStatus' = status
        /\ IF getPackageInfo(status) = "ok"
           THEN pc' = "download" /\ UNCHANGED <<pending, fault>>
           ELSE Throw("resolve", getPackageInfo(status))
    /\ UNCHANGED <<locVars, nameVars, iconVars, dirVars, depVars, clsVars, saveVars, loadVars, urlVars, mode, requested, artifact, pkgOvertaken, loadEnv, declared, manifestKind, disk, outcome, extractedItems, tempDir, cleanupRuns, findVars>>

\* downloadAndExtractPackage: downloadFile
Download ==
    /\ pc = "download"
    /\ \/ pc' = "unpack" /\ UNCHANGED <<pending, fault>>
       \/ Throw("download", "DownloadFailed")
    /\ UNCHANGED <<locVars, nameVars, iconVars, dirVars, depVars, clsVars, saveVars, loadVars, urlVars, mode, requested, artifact, pkgOvertaken, registryStatus, loadEnv, declared, manifestKind, disk, outcome, extractedItems, tempDir, cleanupRuns, findVars>>

\* downloadAndExtractPackage: tar.extract
Unpack ==
    /\ pc = "unpack"
    /\ \/ /\ pc' = "install"
          /\ Staged
          /\ UNCHANGED <<pending, fault>>
       \/ /\ Throw("unpack", "ExtractFailed")
          /\ UNCHANGED <<declared, manifestKind, disk>>
    /\ UNCHANGED <<locVars, nameVars, iconVars, dirVars, depVars, clsVars, saveVars, loadVars, urlVars, mode, requested, manifestKind, artifact, pkgOvertaken, registryStatus, loadEnv, outcome, extractedItems, tempDir, cleanupRuns, findVars>>

\* single: await setupN8nDependencies(this.packagePath), then findNodes starts
\* and awaits getDeclaredNodes
InstallSingle ==
    /\ pc = "install" /\ mode = "single"
    /\ \E installerOk \in BOOLEAN :
        /\ fault' = IF installerOk THEN fault ELSE "install"
        /\ IF setupN8nDependencies(installerOk) = "ok"
           THEN pc' = "find" /\ UNCHANGED pending
           ELSE pending' = Rejected(setupN8nDependencies(installerOk)) /\ pc' = "cleanup"
    /\ UNCHANGED <<locVars, nameVars, iconVars, dirVars, depVars, clsVars, saveVars, loadVars, urlVars, mode, requested, artifact, pkgOvertaken, registryStatus, loadEnv, declared, manifestKind, disk, outcome, extractedItems, tempDir, cleanupRuns, findVars>>

\* multi: the project manifest is written, execSync('npm install ...') runs, and
\* every per-package task is started and awaits getDeclaredNodes
InstallMulti ==
    /\ pc = "install" /\ mode = "multi"
    /\ \/ /\ pc' = "find"
          /\ Staged
          /\ pkgTask' = [p \in 1..NPkgs |-> "reading"]
          /\ UNCHANGED <<pending, fault>>
       \/ /\ Throw("install", "DependencyInstallFailed")
          /\ UNCHANGED <<declared, manifestKind, disk, pkgTask>>
    /\ UNCHANGED <<locVars, nameVars, iconVars, dirVars, depVars, clsVars, saveVars, loadVars, urlVars, mode, requested, manifestKind, artifact, pkgOvertaken, registryStatus, loadEnv, outcome, extractedItems, tempDir, cleanupRuns,
                   nodeTask, results, sEntry, sVar, sNodes, modulePaths, loaded, overtaken>>

\* ---- single package: NodeExtractor.findNodes ----

\* getDeclaredNodes resolves; the loop over the declared entries starts
SingleRead ==
    /\ pc = "find" /\ mode = "single" /\ sEntry = 0
    /\ IF getDeclaredNodes(Readable(tempDir, manifestKind[1]), manifestKind[1], declared[1]).isList
       THEN sEntry' = 1 /\ sVar' = 1 /\ UNCHANGED <<pc, pending, fault>>
       ELSE Throw("manifest", "TypeError") /\ UNCHANGED <<sEntry, sVar>>
    /\ UNCHANGED <<locVars, nameVars, iconVars, dirVars, depVars, clsVars, saveVars, loadVars, urlVars, mode, requested, artifact, pkgOvertaken, registryStatus, loadEnv, declared, manifestKind, disk,  outcome, extractedItems,
                   modulePaths, tempDir, cleanupRuns, loaded,  overtaken, pkgTask, nodeTask,
                   results, sNodes>>

\* one iteration of the inner loop: fs.access of the variation and, when it
\* exists, extractCompleteNode on it (which has no suspension point of its own)
\* A plausible slip: no break after nodes.push(node), the remaining
\* variations of the entry are tried as well.
NextCandidateNoBreak(node, entry, variation) ==
    IF variation < 4 THEN <<entry, variation + 1>> ELSE <<entry + 1, 1>>

\* where the two loops of findNodes go after a candidate: to the next entry
\* after a description (break) or after the last variation, else to the next
\* variation
NextCandidate(node, entry, variation) ==
    IF node # Null THEN <<entry + 1, 1>>
    ELSE IF variation < 4 THEN <<entry, variation + 1>>
    ELSE <<entry + 1, 1>>

SingleTry ==
    /\ pc = "find" /\ mode = "single" /\ sEntry \in 1..Len(declared[1])
    /\ LET variation == Variations(declared[1][sEntry])[sVar]
           found == Exists(disk, 1, variation)
           originalPaths == modulePaths
           during == PrependPath(modulePaths, NodeModulesDir(mode))
       IN  \E kind \in (IF found THEN KindsOf(disk[<<1, variation>>]) ELSE {"absent"}) :
           LET node == IF found THEN extractDescription(1, variation, kind) ELSE Null IN
           /\ loaded' = IF found THEN loaded \cup {<<1, variation>>} ELSE loaded
           /\ loadEnv' = IF found THEN during ELSE loadEnv
           /\ modulePaths' = IF found THEN RestorePaths(during, originalPaths) ELSE modulePaths
           /\ sNodes' = IF node # Null THEN Append(sNodes, node) ELSE sNodes
           /\ sEntry' = NextCandidate(node, sEntry, sVar)[1]
           /\ sVar' = NextCandidate(node, sEntry, sVar)[2]
    /\ UNCHANGED <<locVars, nameVars, iconVars, dirVars, depVars, clsVars, saveVars, loadVars, urlVars, mode, requested, artifact, pkgOvertaken, registryStatus, declared, manifestKind, disk, pc, pending, outcome, extractedItems,
                   tempDir, cleanupRuns, fault, overtaken, pkgTask, nodeTask, results>>

\* findNodes returns; this.extractedItems = nodes; return nodes
SingleDone ==
    /\ pc = "find" /\ mode = "single" /\ sEntry = Len(declared[1]) + 1
    /\ extractedItems' = Items(sNodes)
    /\ pending' = Resolved(sNodes)
    /\ pc' = "cleanup"
    /\ UNCHANGED <<locVars, nameVars, iconVars, dirVars, depVars, clsVars, saveVars, loadVars, urlVars, mode, requested, artifact, pkgOvertaken, registryStatus, loadEnv, declared, manifestKind, disk, outcome, tempDir, cleanupRuns, fault, findVars>>

\* ---- several packages: MultipleNodeExtractor.findNodes ----

\* Promise.all(extractPromises) has not settled, or it was rejected by one
\* package task: the other tasks are not cancelled and run on while the finally
\* block of extractInternal and its caller proceed
TasksRunnable == pc \in {"find", "cleanup", "settled"}

\* the staged tree as fs sees it: gone once cleanup has removed the working directory
VisibleDisk == IF tempDir THEN disk ELSE <<>>

\* getDeclaredNodes of one package resolves; one task per declared entry starts
\* and awaits its existence checks.  A value of n8n.nodes that is no list has no
\* map method: the task rejects, and with it Promise.all(extractPromises)
PkgRead(p) ==
    /\ TasksRunnable /\ mode = "multi" /\ pkgTask[p] = "reading"
    /\ LET declaredNodes == getDeclaredNodes(Readable(tempDir, manifestKind[p]), manifestKind[p], declared[p])
       IN  IF declaredNodes.isList
           THEN /\ pkgTask' = [pkgTask EXCEPT ![p] = "running"]
                /\ nodeTask' = [nodeTask EXCEPT ![p] =
                                  [i \in 1..Len(declaredNodes.v) |->
                                      [st |-> "probing", file |-> Empty, orig |-> <<>>,
                                       res |-> Unset]]]
                /\ UNCHANGED <<pc, pending, fault>>
           ELSE /\ pkgTask' = [pkgTask EXCEPT ![p] = "rejected"]
                /\ IF pc = "find"
                   THEN Throw("manifest", "TypeError")
                   ELSE UNCHANGED <<pc, pending, fault>>
                /\ UNCHANGED nodeTask
    /\ UNCHANGED <<locVars, nameVars, iconVars, dirVars, depVars, clsVars, saveVars, loadVars, urlVars, mode, requested, artifact,
                   pkgOvertaken, registryStatus, loadEnv, declared, manifestKind, disk, outcome,
                   extractedItems, modulePaths, tempDir, cleanupRuns, loaded, overtaken, results,
                   sEntry, sVar, sNodes>>

\* entry i settles while an earlier entry of the same package is still in flight
Overtakes(p, i) == \E k \in 1..(i - 1) : nodeTask[p][k].st # "done"

\* the existence checks of entry i have all resolved: the first valid path is
\* taken and extractCompleteNode runs up to its await of loadNodeModule (the
\* snapshot, the prepend and the require are synchronous), or the entry is skipped
NodeProbe(p, i) ==
    /\ TasksRunnable /\ mode = "multi" /\ pkgTask[p] = "running"
    /\ i \in 1..Len(nodeTask[p]) /\ nodeTask[p][i].st = "probing"
    /\ LET checkResults == CheckResults(VisibleDisk, p, declared[p][i])
           v == FindFirstValid(checkResults)
       IN  IF v # 0
           THEN /\ nodeTask' = [nodeTask EXCEPT ![p][i] =
                                  [st |-> "loading", file |-> checkResults[v].path,
                                   orig |-> modulePaths, res |-> Unset]]
                /\ modulePaths' = PrependPath(modulePaths, NodeModulesDir(mode))
                /\ loaded' = loaded \cup {<<p, checkResults[v].path>>}
                /\ loadEnv' = PrependPath(modulePaths, NodeModulesDir(mode))
                /\ UNCHANGED overtaken
           ELSE /\ nodeTask' = [nodeTask EXCEPT ![p] =
                                  [StoreResult(@, i, Null) EXCEPT ![i].st = "done"]]
                /\ overtaken' = (overtaken \/ Overtakes(p, i))
                /\ UNCHANGED <<modulePaths, loaded, loadEnv>>
    /\ UNCHANGED <<locVars, nameVars, iconVars, dirVars, depVars, clsVars, saveVars, loadVars, urlVars, mode, requested, artifact, pkgOvertaken, registryStatus, declared, manifestKind, disk, pc, pending, outcome, extractedItems,
                   tempDir, cleanupRuns, fault, pkgTask, results, sEntry, sVar, sNodes>>

\* extractCompleteNode resumes after its await: the class is resolved and
\* instantiated, the description read, module.paths restored in the finally block
\* (the attempt's originalPaths goes away with its frame)
NodeFinish(p, i) ==
    /\ TasksRunnable /\ mode = "multi" /\ pkgTask[p] = "running"
    /\ i \in 1..Len(nodeTask[p]) /\ nodeTask[p][i].st = "loading"
    /\ LET t == nodeTask[p][i] IN
       \E kind \in KindsOf(disk[<<p, t.file>>]) :
       LET node == extractDescription(p, t.file, kind) IN
           /\ nodeTask' = [nodeTask EXCEPT ![p] =
                             [StoreResult(@, i, node) EXCEPT ![i].st = "done",
                                                             ![i].orig = <<>>]]
           /\ modulePaths' = RestorePaths(modulePaths, t.orig)
           /\ overtaken' = (overtaken \/ Overtakes(p, i))
    /\ UNCHANGED <<locVars, nameVars, iconVars, dirVars, depVars, clsVars, saveVars, loadVars, urlVars, mode, requested, artifact, pkgOvertaken, registryStatus, loadEnv, declared, manifestKind, disk, pc, pending, outcome, extractedItems,
                   tempDir, cleanupRuns, loaded, fault, pkgTask, results, sEntry, sVar, sNodes>>

\* Promise.all(nodePromises) resolves; results[packageName] = nodes
PkgDone(p) ==
    /\ TasksRunnable /\ mode = "multi" /\ pkgTask[p] = "running"
    /\ \A i \in 1..Len(nodeTask[p]) : nodeTask[p][i].st = "done"
    /\ results' = StoreNodes(results, p, CollectNodes(nodeTask[p]))
    /\ pkgOvertaken' = (pkgOvertaken \/ \E q \in 1..(p - 1) : pkgTask[q] # "done")
    /\ pkgTask' = [pkgTask EXCEPT ![p] = "done"]
    /\ UNCHANGED <<locVars, nameVars, iconVars, dirVars, depVars, clsVars, saveVars, loadVars, urlVars, mode, requested, artifact, registryStatus, loadEnv, declared, manifestKind, disk, pc, pending, outcome, extractedItems,
                   modulePaths, tempDir, cleanupRuns, loaded, fault, overtaken, nodeTask,
                   sEntry, sVar, sNodes>>

\* Promise.all(extractPromises) resolves; this.extractedItems = results; return results
MultiDone ==
    /\ pc = "find" /\ mode = "multi"
    /\ \A p \in 1..NPkgs : pkgTask[p] = "done"
    /\ extractedItems' = Items(results)
    /\ pending' = Resolved(results)
    /\ pc' = "cleanup"
    /\ UNCHANGED <<locVars, nameVars, iconVars, dirVars, depVars, clsVars, saveVars, loadVars, urlVars, mode, requested, artifact, pkgOvertaken, registryStatus, loadEnv, declared, manifestKind, disk, outcome, tempDir, cleanupRuns, fault, findVars>>

\* ---- both: the finally block, then the promise of extract settles ----

Cleanup ==
    /\ pc = "cleanup"
    /\ \E rmOk \in BOOLEAN :
        /\ tempDir' = IF rmOk THEN FALSE ELSE tempDir
        /\ outcome' = Finally(pending, cleanup(rmOk))
    /\ cleanupRuns' = cleanupRuns + 1
    /\ pc' = "settled"
    /\ UNCHANGED <<locVars, nameVars, iconVars, dirVars, depVars, clsVars, saveVars, loadVars, urlVars, mode, requested, artifact, pkgOvertaken, registryStatus, loadEnv, declared, manifestKind, disk, pending, extractedItems, fault, findVars>>

\* the caller saves what the extractor holds (cli: after extract has returned)
SaveResults ==
    /\ pc = "settled" /\ outcome.kind = "resolved"
    /\ artifact' = IF mode = "single" THEN saveResultsList(extractedItems)
                   ELSE saveResultsPackages(extractedItems)
    /\ pc' = "saved"
    /\ UNCHANGED <<locVars, nameVars, iconVars, dirVars, depVars, clsVars, saveVars, loadVars, urlVars, mode, requested, pkgOvertaken,
                   registryStatus, loadEnv, declared, manifestKind, disk, pending, outcome, extractedItems,
                   tempDir, cleanupRuns, fault, findVars>>

-----------------------------------------------------------------------------
\* Parked values of the variables a specification does not use

RunParked ==
    /\ mode = "single" /\ requested = <<1>> /\ declared = <<Empty>>
    /\ manifestKind = <<"list">> /\ disk = <<>>
    /\ pc = "settled" /\ pending = NoCompletion /\ outcome = NoCompletion
    /\ extractedItems = InitItems("single") /\ modulePaths = InitPaths
    /\ tempDir = FALSE /\ cleanupRuns = 0 /\ loaded = {} /\ fault = "none"
    /\ overtaken = FALSE
    /\ pkgTask = <<"idle">> /\ nodeTask = <<Empty>> /\ results = <<>>
    /\ sEntry = 0 /\ sVar = 0 /\ sNodes = <<>>
    /\ artifact = NoArtifact /\ pkgOvertaken = FALSE /\ registryStatus = 0 /\ loadEnv = <<>>

LocParked ==
    /\ locPath = Empty /\ locDisk = {} /\ locChecks = <<>> /\ locOrder = <<>>
    /\ locHanded = Empty

NameParked == nameIn = <<>> /\ nameOut = <<>>

IconParked == iconIn = <<>> /\ iconOut = <<>>

UrlParked == urlIn = <<>> /\ urlOut = <<>>

LoadParked == loadIn = <<>> /\ loadSt = <<>>

ClsParked == clsIn = <<>> /\ clsOut = <<>>

DepParked == depIn = <<>> /\ depOut = <<>>

DirParked == clock = 0 /\ extractors = <<>> /\ tmpFs = <<>>

SaveParked == svMode = "single" /\ svItems = <<>> /\ svCalls = 0 /\ svArtifact = <<>>

-----------------------------------------------------------------------------
\* The specification of one run

\* every requested package has a manifest whose n8n.nodes is a list
WellFormedManifests == \A p \in 1..NPkgs : manifestKind[p] = "list"

Init == InitRun /\ WellFormedManifests /\ LocParked /\ NameParked /\ IconParked /\ UrlParked /\ LoadParked /\ SaveParked /\ ClsParked /\ DepParked /\ DirParked

Next ==
    \/ Mkdir
    \/ ResolvePackage
    \/ Download
    \/ Unpack
    \/ InstallSingle
    \/ InstallMulti
    \/ SingleRead
    \/ SingleTry
    \/ SingleDone
    \/ \E p \in 1..NPkgs : PkgRead(p)
    \/ \E p \in 1..NPkgs : \E i \in 1..MaxEntries : NodeProbe(p, i)
    \/ \E p \in 1..NPkgs : \E i \in 1..MaxEntries : NodeFinish(p, i)
    \/ \E p \in 1..NPkgs : PkgDone(p)
    \/ MultiDone
    \/ Cleanup
    \/ SaveResults

Spec == Init /\ [][Next]_vars

\* The same run over every kind of manifest, malformed ones included
ManifestInit == InitRun /\ LocParked /\ NameParked /\ IconParked /\ UrlParked /\ LoadParked /\ SaveParked /\ ClsParked /\ DepParked /\ DirParked

ManifestSpec == ManifestInit /\ [][Next]_vars

-----------------------------------------------------------------------------
\* The probe of one declared entry (MultipleNodeExtractor.findNodes): the four
\* existence checks run concurrently and resolve in any order

\* declared paths of every shape the variations distinguish
LocPaths ==
    { <<"src/", "A", ".ts">>, <<"src/", "A", ".js">>, <<"dist/", "A", ".js">>,
      <<"A", ".ts">>, <<"lib/", "src/", "A", ".ts", ".ts">> }

PendingCheck == [st |-> "pending", exists |-> FALSE, path |-> Empty]

NotHanded == [st |-> "pending", path |-> Empty]

LocInit ==
    /\ locPath \in LocPaths
    /\ locDisk \in SUBSET { Variations(locPath)[j] : j \in 1..4 }
    /\ locChecks = [j \in 1..4 |-> PendingCheck]
    /\ locOrder = <<>>
    /\ locHanded = NotHanded
    /\ RunParked /\ NameParked /\ IconParked /\ UrlParked /\ LoadParked /\ SaveParked /\ ClsParked /\ DepParked /\ DirParked

\* A plausible slip: the check results are collected in completion order.
StoreCheckInCompletionOrder(checks, j, r) ==
    LET k == CHOOSE n \in 1..Len(checks) :
                 checks[n].st = "pending" /\ \A l \in 1..(n - 1) : checks[l].st # "pending"
    IN  [checks EXCEPT ![k] = r]

\* Promise.all(variations.map(...)): the value of check j is element j
StoreCheck(checks, j, r) == [checks EXCEPT ![j] = r]

\* fs.access of variation j settles: { exists, path: fullPath }
LocCheck(j) ==
    /\ Len(locOrder) < 4
    /\ \A n \in 1..Len(locOrder) : locOrder[n] # j
    /\ LET fullPath == Variations(locPath)[j]
       IN  locChecks' = StoreCheck(locChecks, j,
                           [st |-> "done", exists |-> fullPath \in locDisk, path |-> fullPath])
    /\ locOrder' = Append(locOrder, j)
    /\ UNCHANGED <<runVars, nameVars, iconVars, dirVars, depVars, clsVars, saveVars, loadVars, urlVars, locPath, locDisk, locHanded>>

\* Promise.all resolves: the first valid path goes to extractCompleteNode,
\* or the entry is skipped with a warning
LocSelect ==
    /\ Len(locOrder) = 4
    /\ locHanded = NotHanded
    /\ LET v == FindFirstValid(locChecks)
       IN  locHanded' = IF v # 0 THEN [st |-> "described", path |-> locChecks[v].path]
                        ELSE [st |-> "skipped", path |-> Empty]
    /\ UNCHANGED <<runVars, nameVars, iconVars, dirVars, depVars, clsVars, saveVars, loadVars, urlVars, locPath, locDisk, locChecks, locOrder>>

LocNext == (\E j \in 1..4 : LocCheck(j)) \/ LocSelect

LocSpec == LocInit /\ [][LocNext]_vars

-----------------------------------------------------------------------------
\* generateNodeName applied to two (packageId, originalName) pairs

Scopes == { Empty, <<"@", "a", "/">>, <<"@", "b", "/">> }

BaseIds == { <<"x">>, <<"n8n-nodes-", "x">>, <<"x", ".", "y">> }

PackageIds == { sc \o b : sc \in Scopes, b \in BaseIds }

OriginalNames == { <<"n">>, <<"m">>, <<"y", ".", "n">> }

NamePairs == [pkg : PackageIds, name : OriginalNames]

NameInit ==
    /\ nameIn \in NamePairs \X NamePairs
    /\ nameOut = <<Empty, Empty>>
    /\ RunParked /\ LocParked /\ IconParked /\ UrlParked /\ LoadParked /\ SaveParked /\ ClsParked /\ DepParked /\ DirParked

GenerateName(k) ==
    /\ nameOut[k] = Empty
    /\ nameOut' = [nameOut EXCEPT ![k] = generateNodeName(nameIn[k].name, nameIn[k].pkg)]
    /\ UNCHANGED <<runVars, locVars, iconVars, dirVars, depVars, clsVars, saveVars, loadVars, urlVars, nameIn>>

NameNext == \E k \in 1..2 : GenerateName(k)

NameSpec == NameInit /\ [][NameNext]_vars

-----------------------------------------------------------------------------
\* The icon fields of one raw description, normalised by extractCompleteNode

PackageRoot == << <<"tmp">>, <<"extracted">> >>

SymbolicIcons == { <<"fa:", "star">> }

FileIcons ==
    { <<"file:", "a.svg">>, <<"b.svg">>, <<"/", "img", "/", "c.svg">>,
      <<"..", "/", "d.svg">>, <<"img", "/", "e.svg">>, <<"file:", ".", "/", "f.svg">> }

PairIcons == { Empty, <<"file:", "a.svg">>, <<"b.svg">>, <<"img", "/", "e.svg">> }

RawIcons ==
    {NoIcon} \cup { StrIcon(x) : x \in SymbolicIcons \cup FileIcons }
             \cup { ObjIcon(l, d) : l \in PairIcons, d \in PairIcons }

RawIconUrls == { Empty, <<"o.svg">>, <<"/", "img", "/", "c.svg">> }

IconPackages == { <<"n8n-nodes-", "x">>, <<"@", "a", "/", "n8n-nodes-", "x">> }

NodeFiles == { PackageRoot \o << <<"A.js">> >>,
               PackageRoot \o << <<"dist">>, <<"nodes">>, <<"A.js">> >> }

IconPending == [done |-> FALSE, icon |-> NoIcon, iconUrl |-> Empty]

IconInit ==
    /\ iconIn \in [description : [icon : RawIcons, iconUrl : RawIconUrls],
                   packageName : IconPackages, filePath : NodeFiles]
    /\ iconOut = IconPending
    /\ RunParked /\ LocParked /\ NameParked /\ UrlParked /\ LoadParked /\ SaveParked /\ ClsParked /\ DepParked /\ DirParked

NormalizeIcon ==
    /\ ~iconOut.done
    /\ LET c == NormalizeIcons(iconIn.description, iconIn.packageName,
                               iconIn.filePath, PackageRoot)
       IN  iconOut' = [done |-> TRUE, icon |-> c.icon, iconUrl |-> c.iconUrl]
    /\ UNCHANGED <<runVars, locVars, nameVars, dirVars, depVars, clsVars, saveVars, loadVars, urlVars, iconIn>>

IconNext == NormalizeIcon

IconSpec == IconInit /\ [][IconNext]_vars

-----------------------------------------------------------------------------
\* generateIconUrl applied to one icon reference

UrlPaths ==
    { <<"a.svg">>, <<".", "/", "a.svg">>, <<"..", "/", "a.svg">>,
      <<"..", "/", "img", "/", "a.svg">>, <<"/", "img", "/", "a.svg">>,
      <<"img", "/", "a.svg">>, <<"img", "/", "..", "/", "a.svg">>,
      <<"file:", "a.svg">>, <<"file:", "/", "img", "/", "a.svg">>,
      <<"file:", "img", "/", "a.svg">>,
      <<"..", "/", "..", "/", "..", "/", "a.svg">> }

UrlPackages ==
    { <<"x">>, <<"n8n-nodes-", "x">>, <<"@", "a", "/", "x">>,
      <<"@", "a", "/", "n8n-nodes-", "x">> }

UrlPending == [done |-> FALSE, url |-> Empty]

UrlInit ==
    /\ urlIn \in [iconPath : UrlPaths, packageName : UrlPackages, nodePath : NodeFiles]
    /\ urlOut = UrlPending
    /\ RunParked /\ LocParked /\ NameParked /\ IconParked /\ LoadParked /\ SaveParked /\ ClsParked /\ DepParked /\ DirParked

GenerateUrl ==
    /\ ~urlOut.done
    /\ urlOut' = [done |-> TRUE,
                  url |-> generateIconUrl(urlIn.iconPath, urlIn.packageName,
                                          urlIn.nodePath, PackageRoot)]
    /\ UNCHANGED <<runVars, locVars, nameVars, iconVars, dirVars, depVars, clsVars, saveVars, loadVars, urlIn>>

UrlNext == GenerateUrl

UrlSpec == UrlInit /\ [][UrlNext]_vars

-----------------------------------------------------------------------------
\* loadNodeModule and the attempt that awaits it.  Time is counted in units of
\* 5000 ms; require() is synchronous, so the event loop (and with it every
\* timer callback) waits until the promise executor has returned.

\* timeoutMs = 10000
LoadTimeout == 2

\* the longest require() considered
MaxLoadTime == 4

LoadedFile == <<"A", ".js">>

LoadIdle == [pc |-> "idle", clock |-> 0, timer |-> "unset", promise |-> "pending",
             result |-> Unset]

LoadInit ==
    /\ loadIn \in [duration : 0..MaxLoadTime, kind : {"ok"} \cup ProblemKinds]
    /\ loadSt = LoadIdle
    /\ RunParked /\ LocParked /\ NameParked /\ IconParked /\ UrlParked /\ SaveParked /\ ClsParked /\ DepParked /\ DirParked

\* reject(...) / resolve(...): only the first settlement of a promise counts
Settle(promise, with) == IF promise = "pending" THEN with ELSE promise

\* new Promise(executor): const timeoutId = setTimeout(..., timeoutMs); the
\* executor goes on into require()
LoadStart ==
    /\ loadSt.pc = "idle"
    /\ loadSt' = [loadSt EXCEPT !.pc = "requiring", !.timer = "armed"]
    /\ UNCHANGED <<runVars, locVars, nameVars, iconVars, dirVars, depVars, clsVars, saveVars, urlVars, loadIn>>

\* require(filePath) is still running: time passes, nothing else runs
RequireRuns ==
    /\ loadSt.pc = "requiring"
    /\ loadSt.clock < loadIn.duration
    /\ loadSt' = [loadSt EXCEPT !.clock = @ + 1]
    /\ UNCHANGED <<runVars, locVars, nameVars, iconVars, dirVars, depVars, clsVars, saveVars, urlVars, loadIn>>

\* require returns or throws: clearTimeout(timeoutId), then resolve(module) or
\* reject(error); the executor returns and extractCompleteNode awaits the promise
RequireReturns ==
    /\ loadSt.pc = "requiring"
    /\ loadSt.clock = loadIn.duration
    /\ loadSt' = [loadSt EXCEPT
                    !.pc = "awaiting",
                    !.timer = "cleared",
                    !.promise = Settle(@, IF ModuleOf(loadIn.kind).loads
                                          THEN "resolved" ELSE "rejected")]
    /\ UNCHANGED <<runVars, locVars, nameVars, iconVars, dirVars, depVars, clsVars, saveVars, urlVars, loadIn>>

\* the event loop runs again: a timer that is still armed and due fires and
\* rejects with the timeout error; then extractCompleteNode resumes after its
\* await with the promise's settlement
EventLoopTurn ==
    /\ loadSt.pc = "awaiting"
    /\ LET fires == loadSt.timer = "armed" /\ loadSt.clock >= LoadTimeout
           promise == IF fires THEN Settle(loadSt.promise, "timeout") ELSE loadSt.promise
       IN  /\ promise # "pending"
           /\ loadSt' = [loadSt EXCEPT
                           !.pc = "done",
                           !.timer = IF fires THEN "fired" ELSE @,
                           !.promise = promise,
                           !.result = IF promise = "resolved"
                                      THEN extractDescription(1, LoadedFile, loadIn.kind)
                                      ELSE Null]
    /\ UNCHANGED <<runVars, locVars, nameVars, iconVars, dirVars, depVars, clsVars, saveVars, urlVars, loadIn>>

LoadNext == LoadStart \/ RequireRuns \/ RequireReturns \/ EventLoopTurn

LoadSpec == LoadInit /\ [][LoadNext]_vars

-----------------------------------------------------------------------------
\* One extractor object: any sequence of extract calls, then saveResults.
\* A call of extract assigns extractedItems only when it succeeds.

\* the extract calls considered before the save
MaxCalls == 2

SavedDescs == { Desc(1, <<"A", ".js">>), Desc(2, <<"B", ".js">>) }

\* what a successful extract can return
Collections(m) ==
    IF m = "single" THEN SeqsUpTo(SavedDescs, MaxEntries)
    ELSE UNION { [1..n -> SeqsUpTo(SavedDescs, MaxEntries)] : n \in 1..2 }

SaveInit ==
    /\ svMode \in {"single", "multi"}
    /\ svItems = InitItems(svMode)
    /\ svCalls = 0
    /\ svArtifact = NoArtifact
    /\ RunParked /\ LocParked /\ NameParked /\ IconParked /\ UrlParked /\ LoadParked /\ ClsParked /\ DepParked /\ DirParked

\* extract resolves: this.extractedItems = results
ExtractSucceeds ==
    /\ svArtifact = NoArtifact /\ svCalls < MaxCalls
    /\ \E c \in Collections(svMode) : svItems' = Items(c)
    /\ svCalls' = svCalls + 1
    /\ UNCHANGED <<runVars, locVars, nameVars, iconVars, dirVars, depVars, clsVars, urlVars, loadVars, svMode, svArtifact>>

\* extract rejects: the assignment is not reached
ExtractFails ==
    /\ svArtifact = NoArtifact /\ svCalls < MaxCalls
    /\ svCalls' = svCalls + 1
    /\ UNCHANGED <<runVars, locVars, nameVars, iconVars, dirVars, depVars, clsVars, urlVars, loadVars, svMode, svItems, svArtifact>>

\* saveResults: the multi-package one throws on Object.keys(undefined) when no
\* extract has succeeded yet, and writes nothing
Save ==
    /\ svArtifact = NoArtifact
    /\ svArtifact' = IF svMode = "single" THEN saveResultsList(svItems)
                     ELSE IF svItems.def THEN saveResultsPackages(svItems)
                     ELSE [kind |-> "threw"]
    /\ UNCHANGED <<runVars, locVars, nameVars, iconVars, dirVars, depVars, clsVars, urlVars, loadVars, svMode, svItems, svCalls>>

SaveNext == ExtractSucceeds \/ ExtractFails \/ Save

SaveSpec == SaveInit /\ [][SaveNext]_vars

-----------------------------------------------------------------------------
\* resolveNodeClass on the exports of one loaded module, and the step of
\* extractCompleteNode that uses its result

\* exports of one module
MaxExports == 3

ExportKeys == {"default", "A", "B"}

\* what an export's value is: a function (a class), another truthy value, or a
\* falsy one
ValueKinds == {"function", "object", "null"}

\* require() returned null or undefined instead of an exports object
NullExports == <<[key |-> "", kind |-> "nullexports"]>>

\* Object.entries(nodeModule): the exports in enumeration order, keys distinct
ExportLists ==
    { m \in SeqsUpTo([key : ExportKeys, kind : ValueKinds], MaxExports) :
          \A i, j \in 1..Len(m) : m[i].key = m[j].key => i = j }

Class(key) == [kind |-> "class", key |-> key]

NoClass == [kind |-> "null", key |-> ""]

Threw == [kind |-> "threw", key |-> ""]

Truthy(kind) == kind # "null"

\* nodeModule.default, "null" for undefined
DefaultExport(nodeModule) ==
    IF \E i \in 1..Len(nodeModule) : nodeModule[i].key = "default"
    THEN nodeModule[CHOOSE i \in 1..Len(nodeModule) : nodeModule[i].key = "default"].kind
    ELSE "null"

\* the for loop over Object.entries: the first function export that is not
\* the default, 0 if there is none
FirstFunctionExport(nodeModule) ==
    LET hits == { i \in 1..Len(nodeModule) :
                      nodeModule[i].kind = "function" /\ nodeModule[i].key # "default" }
    IN  IF hits = {} THEN 0 ELSE CHOOSE i \in hits : \A j \in hits : i <= j

\* A plausible slip: the typeof test on the default export is left out.
resolveNodeClassAnyDefault(nodeModule) ==
    IF nodeModule = NullExports THEN Threw
    ELSE IF Truthy(DefaultExport(nodeModule)) THEN Class("default")
    ELSE IF FirstFunctionExport(nodeModule) # 0
         THEN Class(nodeModule[FirstFunctionExport(nodeModule)].key)
    ELSE NoClass

resolveNodeClass(nodeModule) ==
    IF nodeModule = NullExports THEN Threw
    ELSE IF Truthy(DefaultExport(nodeModule)) /\ DefaultExport(nodeModule) = "function"
         THEN Class("default")
    ELSE IF FirstFunctionExport(nodeModule) # 0
         THEN Class(nodeModule[FirstFunctionExport(nodeModule)].key)
    ELSE NoClass

ClsPending == [st |-> "pending", cls |-> NoClass, result |-> "none", raised |-> FALSE]

ClsInit ==
    /\ clsIn \in ExportLists \cup {NullExports}
    /\ clsOut = ClsPending
    /\ RunParked /\ LocParked /\ NameParked /\ IconParked /\ UrlParked /\ LoadParked /\ SaveParked /\ DepParked /\ DirParked

\* const NodeClass = this.resolveNodeClass(nodeModule)
ResolveClass ==
    /\ clsOut.st = "pending"
    /\ clsOut' = [clsOut EXCEPT !.st = "resolved", !.cls = resolveNodeClass(clsIn)]
    /\ UNCHANGED <<runVars, locVars, nameVars, iconVars, dirVars, depVars, urlVars, loadVars, saveVars, clsIn>>

\* the test of NodeClass: null is returned where there is no class, and from
\* the outer catch block where resolveNodeClass threw; otherwise the class is
\* instantiated
AttemptContinues ==
    /\ clsOut.st = "resolved"
    /\ clsOut' = [clsOut EXCEPT !.st = "returned",
                                !.result = IF clsOut.cls.kind = "class"
                                           THEN "instantiated" ELSE "null"]
    /\ UNCHANGED <<runVars, locVars, nameVars, iconVars, dirVars, depVars, urlVars, loadVars, saveVars, clsIn>>

ClsNext == ResolveClass \/ AttemptContinues

ClsSpec == ClsInit /\ [][ClsNext]_vars

-----------------------------------------------------------------------------
\* setupN8nDependencies on the package.json of one unpacked package

CorePackages == {"n8n-workflow", "n8n-core"}

\* version strings a manifest may hold; "" is the empty range
Versions == {"1.0", "2.0", ""}

\* a section of package.json: absent, or an object from names to versions
NoSection == [has |-> FALSE, m |-> <<>>]

Section(m) == [has |-> TRUE, m |-> m]

\* the objects over a set of names with versions from a set
Objects(names, versions) == UNION { [keys -> versions] : keys \in SUBSET names }

\* the manifests the model draws from
DepManifests ==
    [dependencies : {NoSection} \cup { Section(m) : m \in Objects(CorePackages, {"1.0", ""}) },
     peerDependencies : {NoSection} \cup
                        { Section(m) : m \in Objects({"n8n-workflow", "peer-x"}, {"2.0"}) },
     devDependencies : {NoSection, Section([k \in {"dev-y"} |-> "1.0"])}]

\* packageJson = { name: 'temp', version: '1.0.0' } where the file cannot be read
TempManifest ==
    [dependencies |-> NoSection, peerDependencies |-> NoSection, devDependencies |-> NoSection]

\* Object.assign(target, source): the source's entries win
ObjectAssign(target, source) == source @@ target

\* !packageJson.dependencies[name]: no such key, or an empty version string
Falsy(deps, name) == name \notin DOMAIN deps \/ deps[name] = ""

EnsureCore(deps, name) ==
    IF Falsy(deps, name) THEN [k \in {name} |-> "latest"] @@ deps ELSE deps

\* the object setupN8nDependencies writes for the manifest it read
StagedManifest(packageJson) ==
    LET deps0 == IF packageJson.dependencies.has THEN packageJson.dependencies.m ELSE <<>>
        deps1 == IF packageJson.peerDependencies.has
                 THEN ObjectAssign(deps0, packageJson.peerDependencies.m) ELSE deps0
        deps2 == EnsureCore(deps1, "n8n-workflow")
        deps3 == EnsureCore(deps2, "n8n-core")
    IN  [dependencies |-> Section(deps3),
         peerDependencies |-> packageJson.peerDependencies,
         devDependencies |-> NoSection]

DepStart == [st |-> "start", written |-> <<>>, installerStarted |-> FALSE]

DepInit ==
    /\ depIn \in [readable : {TRUE}, json : DepManifests]
                 \cup {[readable |-> FALSE, json |-> TempManifest]}
    /\ depOut = DepStart
    /\ RunParked /\ LocParked /\ NameParked /\ IconParked /\ UrlParked /\ LoadParked /\ SaveParked /\ ClsParked /\ DirParked

\* the manifest is read and rewritten; await fs.writeFile resolves or rejects
WriteManifest ==
    /\ depOut.st = "start"
    /\ \E writeOk \in BOOLEAN :
         depOut' = IF writeOk
                   THEN [depOut EXCEPT !.st = "written",
                                       !.written = <<StagedManifest(depIn.json)>>]
                   ELSE [depOut EXCEPT !.st = "thrown"]
    /\ UNCHANGED <<runVars, locVars, nameVars, iconVars, dirVars, urlVars, loadVars, saveVars, clsVars, depIn>>

\* execSync('npm install --no-save --omit=dev') starts
StartInstaller ==
    /\ depOut.st = "written"
    /\ depOut' = [depOut EXCEPT !.st = "installing", !.installerStarted = TRUE]
    /\ UNCHANGED <<runVars, locVars, nameVars, iconVars, dirVars, urlVars, loadVars, saveVars, clsVars, depIn>>

\* execSync returns, or throws and the catch block re-throws
InstallerEnds ==
    /\ depOut.st = "installing"
    /\ \E installerOk \in BOOLEAN :
         depOut' = [depOut EXCEPT !.st = IF setupN8nDependencies(installerOk) = "ok"
                                         THEN "returned" ELSE "thrown"]
    /\ UNCHANGED <<runVars, locVars, nameVars, iconVars, dirVars, urlVars, loadVars, saveVars, clsVars, depIn>>

DepNext == WriteManifest \/ StartInstaller \/ InstallerEnds

DepSpec == DepInit /\ [][DepNext]_vars

-----------------------------------------------------------------------------
\* Two extractors constructed without config.tempDir and run on one machine

\* milliseconds the model lets pass
MaxClock == 2

Extractors == {1, 2}

\* path.join(os.tmpdir(), 'extractor-' + Date.now())
DefaultTempDir(now) == <<"extractor-", now>>

NotCreated == [st |-> "none", tempDir |-> <<>>]

DirInit ==
    /\ clock = 0
    /\ extractors = [e \in Extractors |-> NotCreated]
    /\ tmpFs = <<>>
    /\ RunParked /\ LocParked /\ NameParked /\ IconParked /\ UrlParked /\ LoadParked /\ SaveParked /\ ClsParked /\ DepParked

\* a millisecond passes
Tick ==
    /\ clock < MaxClock
    /\ clock' = clock + 1
    /\ UNCHANGED <<runVars, locVars, nameVars, iconVars, urlVars, loadVars, saveVars, clsVars, depVars, extractors, tmpFs>>

\* new NodeExtractor() / new MultipleNodeExtractor()
Construct(e) ==
    /\ extractors[e].st = "none"
    /\ extractors' = [extractors EXCEPT ![e] =
                         [st |-> "created", tempDir |-> DefaultTempDir(clock)]]
    /\ UNCHANGED <<runVars, locVars, nameVars, iconVars, urlVars, loadVars, saveVars, clsVars, depVars, clock, tmpFs>>

\* extract: fs.mkdir(this.tempDir, { recursive: true }) succeeds whether or
\* not the directory exists, and the package is staged below it
StageFiles(e) ==
    /\ extractors[e].st = "created"
    /\ LET dir == extractors[e].tempDir
           held == IF dir \in DOMAIN tmpFs THEN tmpFs[dir] ELSE {}
       IN  tmpFs' = (dir :> (held \cup {e})) @@ tmpFs
    /\ extractors' = [extractors EXCEPT ![e].st = "running"]
    /\ UNCHANGED <<runVars, locVars, nameVars, iconVars, urlVars, loadVars, saveVars, clsVars, depVars, clock>>

\* cleanup: fs.rm(this.tempDir, { recursive: true, force: true })
RemoveTempDir(e) ==
    /\ extractors[e].st = "running"
    /\ tmpFs' = [d \in DOMAIN tmpFs \ {extractors[e].tempDir} |-> tmpFs[d]]
    /\ extractors' = [extractors EXCEPT ![e].st = "done"]
    /\ UNCHANGED <<runVars, locVars, nameVars, iconVars, urlVars, loadVars, saveVars, clsVars, depVars, clock>>

DirNext ==
    \/ Tick
    \/ \E e \in Extractors : Construct(e)
    \/ \E e \in Extractors : StageFiles(e)
    \/ \E e \in Extractors : RemoveTempDir(e)

DirSpec == DirInit /\ [][DirNext]_vars

-----------------------------------------------------------------------------
\* Properties of one run (Spec)

\* the description list extract returned for package p
Described(p) == IF mode = "single" THEN outcome.value ELSE outcome.value[p]

Healthy(p, file) == Exists(disk, p, file) /\ disk[<<p, file>>] = "ok"

\* The description entry i of package p is due: in the multi-package extractor
\* that of the first existing candidate if it is healthy, in the single-package
\* extractor that of the first candidate that exists and is healthy.
ExpectedDesc(p, i) ==
    LET vs == Variations(declared[p][i])
        v == FindFirstValid(CheckResults(disk, p, declared[p][i]))
        hs == { j \in 1..4 : Healthy(p, vs[j]) }
    IN  IF mode = "multi"
        THEN (IF v # 0 /\ Healthy(p, vs[v]) THEN Desc(p, vs[v]) ELSE Null)
        ELSE (IF hs # {} THEN Desc(p, vs[CHOOSE j \in hs : \A k \in hs : j <= k]) ELSE Null)

ExpectedList(p) == FilterNonNull([i \in 1..Len(declared[p]) |-> ExpectedDesc(p, i)])

InSeq(x, sq) == \E n \in 1..Len(sq) : sq[n] = x

Completed == pc \in {"settled", "saved"} /\ fault = "none"

ProblemsSkipOneModuleOnly ==
    Completed =>
        /\ outcome.kind = "resolved"
        /\ \A p \in 1..NPkgs :
            /\ \A n \in 1..Len(Described(p)) :
                   Healthy(Described(p)[n].pkg, Described(p)[n].file)
            /\ \A i \in 1..Len(declared[p]) :
                   ExpectedDesc(p, i) # Null => InSeq(ExpectedDesc(p, i), Described(p))

\* a completed run that loaded a problematic module and still described another
ProblemsSkipOneModuleOnly_Witness ==
    /\ Completed
    /\ \E f \in loaded : disk[f] = "bad"
    /\ \E p \in 1..NPkgs : Described(p) # <<>>

\* C4: the list returned for a package is the sequence of the descriptions its
\* declared entries produced, in declaration order.
DeclarationOrderKept ==
    Completed => \A p \in 1..NPkgs : Described(p) = ExpectedList(p)

\* a later entry settled before an earlier one and both are in the list
DeclarationOrderKept_Witness ==
    /\ Completed /\ mode = "multi" /\ overtaken
    /\ \E p \in 1..NPkgs : Len(Described(p)) = 2 /\ Described(p)[1] # Described(p)[2]

\* C5: extract settles only after cleanup ran, and with the completion it held
\* before cleanup, whether or not the deletion succeeded.
CleanupAlwaysRunsAndNeverDecides ==
    pc = "settled" =>
        /\ cleanupRuns = 1
        /\ outcome = pending
        /\ outcome.kind \in {"resolved", "rejected"}

\* a failed run whose cleanup could not delete the working directory
CleanupAlwaysRunsAndNeverDecides_Witness ==
    pc = "settled" /\ tempDir /\ outcome.kind = "rejected" /\ cleanupRuns = 1

StageError(stage) ==
    CASE stage = "resolve" -> "PackageNotFound"
      [] stage = "download" -> "DownloadFailed"
      [] stage = "unpack" -> "ExtractFailed"
      [] stage = "install" -> "DependencyInstallFailed"
      [] OTHER -> "MkdirFailed"

\* C6: after a failed download, unpack or dependency installation no plugin
\* module is loaded, no description list is stored, and extract rejects with
\* the error of the failed stage.
FailedStageAborts ==
    fault \in {"resolve", "download", "unpack", "install"} =>
        /\ loaded = {}
        /\ extractedItems = InitItems(mode)
        /\ results = <<>>
        /\ pc \in {"cleanup", "settled"}
        /\ pc = "settled" => outcome = Rejected(StageError(fault))

\* the installer failed on an unpacked package that has plugin files
FailedStageAborts_Witness ==
    pc = "settled" /\ mode = "single" /\ fault = "install" /\ DOMAIN disk # {}

-----------------------------------------------------------------------------
\* Properties of the candidate probe (LocSpec)

AnyCandidateExists == \E j \in 1..4 : Variations(locPath)[j] \in locDisk

EarliestExisting ==
    Variations(locPath)[CHOOSE j \in 1..4 :
                            /\ Variations(locPath)[j] \in locDisk
                            /\ \A k \in 1..(j - 1) : Variations(locPath)[k] \notin locDisk]

CompletedBefore(a, b) ==
    \E m, n \in 1..Len(locOrder) : m < n /\ locOrder[m] = a /\ locOrder[n] = b

\* C2: the file handed to the describer is the earliest candidate that exists,
\* whatever the order in which the existence checks completed; when no
\* candidate exists nothing is described.
EarliestExistingCandidateWins ==
    locHanded.st # "pending" =>
        IF AnyCandidateExists
        THEN locHanded = [st |-> "described", path |-> EarliestExisting]
        ELSE locHanded.st = "skipped"

\* two different candidates exist and the check of the later one completed first
EarliestExistingCandidateWins_Witness ==
    /\ locHanded.st = "described"
    /\ \E a, b \in 1..4 :
        /\ a < b /\ CompletedBefore(b, a)
        /\ Variations(locPath)[a] \in locDisk /\ Variations(locPath)[b] \in locDisk
        /\ Variations(locPath)[a] # Variations(locPath)[b]
        /\ \A k \in 1..(a - 1) : Variations(locPath)[k] \notin locDisk

-----------------------------------------------------------------------------
\* Properties of generateNodeName (NameSpec)

\* C7: two distinct pairs (packageId, originalName) get distinct names.
NamesInjective ==
    (nameOut[1] # Empty /\ nameOut[2] # Empty /\ nameIn[1] # nameIn[2])
        => nameOut[1] # nameOut[2]

-----------------------------------------------------------------------------
\* Properties of the icon normalisation (IconSpec)

IconUrlOf(p) == generateIconUrl(p, iconIn.packageName, iconIn.filePath, PackageRoot)

IsSymbolic(icon) == icon.t = "str" /\ StartsWith(icon.s, "fa:")

\* C8: the final record never has both a symbolic icon and an iconUrl.
SymbolicIconExcludesUrl ==
    iconOut.done => ~(IsSymbolic(iconOut.icon) /\ iconOut.iconUrl # Empty)

\* C9: a top-level iconUrl of the raw description determines the final iconUrl.
OverrideDeterminesUrl ==
    (iconOut.done /\ iconIn.description.iconUrl # Empty)
        => iconOut.iconUrl = IconUrlOf(iconIn.description.iconUrl)

\* C10: for a light/dark pair the final iconUrl is the URL of the dark icon
\* when a dark icon is present, and the URL of the light icon when only a
\* light icon is present.
DarkIconWins ==
    (iconOut.done /\ iconIn.description.icon.t = "obj") =>
        LET ic == iconIn.description.icon
        IN  /\ ic.dark # Empty => iconOut.iconUrl = IconUrlOf(ic.dark)
            /\ (ic.dark = Empty /\ ic.light # Empty) => iconOut.iconUrl = IconUrlOf(ic.light)

\* both icons are present and resolve to different URLs
DarkIconWins_Witness ==
    /\ iconOut.done /\ iconIn.description.icon.t = "obj"
    /\ iconIn.description.icon.light # Empty /\ iconIn.description.icon.dark # Empty
    /\ IconUrlOf(iconIn.description.icon.light) # IconUrlOf(iconIn.description.icon.dark)

-----------------------------------------------------------------------------
\* Properties of generateIconUrl (UrlSpec)

\* the icon reference without its "file:" prefix
UrlRef == StripFile(urlIn.iconPath)

\* the reference resolved against the module's directory, relative to the package root
ResolvedAgainstModule ==
    JoinSegs(RelativeSegs(PackageRoot,
                          ResolveSegs(DirnameSegs(urlIn.nodePath), SplitSegs(UrlRef))))

IsRelativeRef ==
    \/ ~Includes(UrlRef, "/")
    \/ StartsWith2(UrlRef, ".", "/")
    \/ StartsWith2(UrlRef, "..", "/")

\* what follows "icons/<package id>/" in the URL
UrlRelativePart == Drop(urlOut.url, 2 + Len(StripScope(urlIn.packageName)))

\* C11: the relative part of the URL follows three rules: a leading "/" is
\* stripped; a bare filename or a reference starting with "./" or "../" is
\* resolved against the module's directory and made relative to the package
\* root; anything else is passed through unchanged.
IconPathThreeRules ==
    urlOut.done =>
        IF StartsWith(UrlRef, "/") THEN UrlRelativePart = Drop(UrlRef, 1)
        ELSE IF IsRelativeRef THEN UrlRelativePart = ResolvedAgainstModule
        ELSE UrlRelativePart = UrlRef

\* a "../" reference of a module in a subdirectory, resolved to something else
IconPathThreeRules_Witness ==
    /\ urlOut.done
    /\ StartsWith2(UrlRef, "..", "/")
    /\ Len(urlIn.nodePath) > Len(PackageRoot) + 1
    /\ UrlRelativePart # UrlRef

UrlPrefix(id) == <<"icons/">> \o id \o <<"/">>

HasPrefix(s, pre) == Len(s) >= Len(pre) /\ SubSeq(s, 1, Len(pre)) = pre

\* C12 as stated: the package id of the icon URL is the one of the normalized
\* name, with the scope and the "n8n-nodes-" prefix stripped.
IconUrlUsesNameId ==
    urlOut.done =>
        HasPrefix(urlOut.url, UrlPrefix(StripPrefix(StripScope(urlIn.packageName))))

\* C12, amended: the icon URL is icons/<id>/<relative path> where <id> is the
\* package id with only its scope stripped; a "n8n-nodes-" prefix stays.
IconUrlKeepsPackagePrefix ==
    urlOut.done =>
        /\ HasPrefix(urlOut.url, UrlPrefix(StripScope(urlIn.packageName)))
        /\ StartsWith(StripScope(urlIn.packageName), "n8n-nodes-")
               => urlOut.url[2] = "n8n-nodes-"

\* a scoped package whose id carries the conventional prefix
IconUrlKeepsPackagePrefix_Witness ==
    /\ urlOut.done
    /\ StartsWith(urlIn.packageName, "@")
    /\ StartsWith(StripScope(urlIn.packageName), "n8n-nodes-")

-----------------------------------------------------------------------------
\* Properties of loadNodeModule (LoadSpec)

\* C13: a load that takes longer than the timeout ends with the timeout
\* failure and yields no description.
SlowLoadTimesOut ==
    (loadSt.pc = "done" /\ loadIn.duration > LoadTimeout)
        => (loadSt.promise = "timeout" /\ loadSt.result = Null)

-----------------------------------------------------------------------------
\* Further properties of one run (Spec)

SeqRange(sq) == { sq[n] : n \in 1..Len(sq) }

\* C14: the result map of the multi-package extractor has one key per requested
\* package, each key holds the descriptions of that package's own modules and
\* no others, and totalNodes counts all of them.
ResultMapPerPackage ==
    (Completed /\ mode = "multi") =>
        LET due == [p \in 1..NPkgs |-> ExpectedList(p)]
        IN  /\ DOMAIN outcome.value = 1..NPkgs
            /\ \A p \in 1..NPkgs :
                   /\ SeqRange(outcome.value[p]) = SeqRange(due[p])
                   /\ \A n \in 1..Len(outcome.value[p]) : outcome.value[p][n].pkg = p
            /\ TotalNodes(outcome.value) = TotalNodes(due)
            /\ pc = "saved" =>
                   /\ DOMAIN artifact.packages = 1..NPkgs
                   /\ artifact.totalNodes = TotalNodes(due)

\* two packages with one working plugin each, the second one finished first
ResultMapPerPackage_Witness ==
    /\ pc = "saved" /\ mode = "multi" /\ NPkgs = 2 /\ pkgOvertaken
    /\ Len(artifact.packages[1]) = 1 /\ Len(artifact.packages[2]) = 1
    /\ artifact.totalNodes = 2

\* C17: a failed registry query fails with PackageNotFound exactly when the
\* registry answered with the not-found status (404), and with another error for
\* every other non-success status.
RegistryFailuresDistinguished ==
    (pc = "settled" /\ fault = "resolve") =>
        (outcome = Rejected("PackageNotFound") <=> registryStatus = 404)

\* the description attempts between their snapshot of module.paths and their
\* restore
InFlight == { e \in (1..NPkgs) \X (1..MaxEntries) :
                  e[2] <= Len(nodeTask[e[1]]) /\ nodeTask[e[1]][e[2]].st = "loading" }

\* the step is the snapshot of attempt e
TakesSnapshot(e) ==
    /\ e[2] <= Len(nodeTask[e[1]]) /\ nodeTask[e[1]][e[2]].st = "probing"
    /\ nodeTask'[e[1]][e[2]].st = "loading"

DependencyDirPresentAtLoad ==
    loaded # {} => InSeq(NodeModulesDir(mode), loadEnv)

\* a module was loaded while the attempt of a sibling entry was in flight
DependencyDirPresentAtLoad_Witness ==
    /\ mode = "multi" /\ Cardinality(InFlight) = 2
    /\ InSeq(NodeModulesDir(mode), loadEnv)

\* what MultipleNodeExtractor.findNodes yields for entry i of package p on the
\* staged contents: the description of the first existing candidate, or null
MultiLocated(p, i) ==
    LET checkResults == CheckResults(disk, p, declared[p][i])
        v == FindFirstValid(checkResults)
    IN  IF v # 0 /\ Healthy(p, checkResults[v].path)
        THEN Desc(p, checkResults[v].path) ELSE Null

\* C21: on the same staged contents and declared entries the single-package
\* locator describes the candidate file the multi-package locator describes,
\* or none where that one describes none.
LocatorsAgree ==
    (Completed /\ mode = "single") =>
        Described(1) = FilterNonNull([i \in 1..Len(declared[1]) |-> MultiLocated(1, i)])

\* C26: every declared entry contributes at most one description: the list
\* findNodes builds, and the list extract returns, is never longer than the
\* list of declared entries, in both extractors.
AtMostOnePerEntry ==
    /\ Len(sNodes) <= Len(declared[1])
    /\ \A p \in 1..NPkgs : p \in DOMAIN results => Len(results[p]) <= Len(declared[p])
    /\ Completed => \A p \in 1..NPkgs : Len(Described(p)) <= Len(declared[p])

\* single-package run: a candidate that exists was loaded and gave nothing,
\* and still every declared entry was described once
AtMostOnePerEntry_Witness ==
    /\ Completed /\ mode = "single"
    /\ \E f \in loaded : disk[f] = "bad"
    /\ declared[1] # <<>> /\ Len(Described(1)) = Len(declared[1])

-----------------------------------------------------------------------------
\* Properties of one run over every kind of manifest (ManifestSpec)

\* the stages before findNodes
SetupStages == {"mkdir", "resolve", "download", "unpack", "install"}

\* no setup stage failed and no manifest holds an n8n.nodes that is not a list
NothingBroken ==
    /\ fault \notin SetupStages
    /\ \A p \in 1..NPkgs : manifestKind[p] # "notalist"

\* no declared entry of the run is due a description
NothingToExtract == \A p \in 1..NPkgs : ExpectedList(p) = <<>>

\* C16: a run in which no plugin is extracted (nothing declared, or every
\* declared entry skipped) completes successfully: extract returns an empty
\* list, the written result has totalNodes 0 and an empty nodes list.
EmptyRunSucceeds ==
    (pc \in {"settled", "saved"} /\ NothingBroken /\ NothingToExtract) =>
        /\ outcome.kind = "resolved"
        /\ \A p \in 1..NPkgs : Described(p) = <<>>
        /\ pc = "saved" =>
               /\ artifact.totalNodes = 0
               /\ mode = "single" => artifact.nodes = <<>>
               /\ mode = "multi" => \A p \in 1..NPkgs : artifact.packages[p] = <<>>

\* the only declared entry of a package was loaded and skipped, and the
\* result was written
EmptyRunSucceeds_Witness ==
    /\ pc = "saved" /\ mode = "single"
    /\ declared[1] # <<>> /\ loaded # {}
    /\ artifact.totalNodes = 0 /\ artifact.nodes = <<>>

\* a per-package findNodes task, or a description attempt inside one, has not
\* settled
TaskInFlight(p) == pkgTask[p] \in {"reading", "running"}

\* C19: in the multi-package extractor cleanup does not remove the working
\* directory while a per-package task or a description of the run is still in
\* flight, also when a sibling task has rejected.
WorkDirOutlivesTasks ==
    (mode = "multi" /\ cleanupRuns >= 1) => \A p \in 1..NPkgs : ~TaskInFlight(p)

\* package p has no manifest (or is not in the installed tree), or its
\* manifest declares no plugin entries
DeclaresNothing(p) == manifestKind[p] \in {"absent", "missing"} \/ declared[p] = <<>>

\* C22: a successful multi-package run has one key per requested package and
\* no other; a package without manifest or without declared entries maps to
\* the empty list, keeps its key and does not abort the other packages.
EmptyPackagesKeepTheirKey ==
    (mode = "multi" /\ pc \in {"settled", "saved"} /\ NothingBroken) =>
        /\ outcome.kind = "resolved"
        /\ DOMAIN outcome.value = 1..NPkgs
        /\ \A p \in 1..NPkgs :
               /\ DeclaresNothing(p) => outcome.value[p] = <<>>
               /\ outcome.value[p] = ExpectedList(p)

\* the first package has no manifest, the second one was described
EmptyPackagesKeepTheirKey_Witness ==
    /\ mode = "multi" /\ pc = "settled" /\ NPkgs = 2
    /\ manifestKind[1] = "absent"
    /\ outcome.kind = "resolved" /\ outcome.value[1] = <<>> /\ outcome.value[2] # <<>>

-----------------------------------------------------------------------------
\* Properties of resolveNodeClass (ClsSpec)

\* the positions of the module's function exports
FunctionExports == { i \in 1..Len(clsIn) : clsIn[i].kind = "function" }

NamedFunctionExports == { i \in FunctionExports : clsIn[i].key # "default" }

\* C23: resolveNodeClass returns the default export when it is invocable,
\* otherwise the first invocable named export in enumeration order, never a
\* default that is not invocable, and null when no export is invocable; the
\* attempt then returns null and raises nothing.
ClassResolution ==
    (clsOut.st # "pending" /\ clsIn # NullExports) =>
        /\ (\E i \in FunctionExports : clsIn[i].key = "default") =>
               clsOut.cls = Class("default")
        /\ ((\A i \in FunctionExports : clsIn[i].key # "default")
                /\ NamedFunctionExports # {}) =>
               \E i \in NamedFunctionExports :
                   /\ clsOut.cls = Class(clsIn[i].key)
                   /\ \A j \in NamedFunctionExports : i <= j
        /\ clsOut.cls.kind = "class" =>
               \E i \in FunctionExports : clsIn[i].key = clsOut.cls.key
        /\ FunctionExports = {} =>
               /\ clsOut.cls = NoClass
               /\ clsOut.st = "returned" => clsOut.result = "null" /\ ~clsOut.raised

\* a default export that is an object, before two exported functions: the
\* first of the two was taken and instantiated
ClassResolution_Witness ==
    /\ clsOut.st = "returned" /\ Len(clsIn) = 3
    /\ clsIn[1] = [key |-> "default", kind |-> "object"]
    /\ clsIn[2].kind = "function" /\ clsIn[3].kind = "function"
    /\ clsOut.cls = Class(clsIn[2].key) /\ clsOut.result = "instantiated"

-----------------------------------------------------------------------------
\* Properties of setupN8nDependencies (DepSpec)

\* the version the read manifest declares for a core package: the peer
\* requirement where there is one, else the dependency; "none" where neither
DeclaredVersion(name) ==
    IF depIn.json.peerDependencies.has /\ name \in DOMAIN depIn.json.peerDependencies.m
    THEN depIn.json.peerDependencies.m[name]
    ELSE IF depIn.json.dependencies.has /\ name \in DOMAIN depIn.json.dependencies.m
    THEN depIn.json.dependencies.m[name]
    ELSE "none"

\* C24: the manifest setupN8nDependencies writes holds every declared peer
\* requirement among its dependencies, both core packages (with the version
\* already declared, "latest" only where none was declared) and no
\* devDependencies; the installer starts only after the manifest is written.
StagedManifestComplete ==
    /\ depOut.installerStarted => depOut.written # <<>>
    /\ depOut.written # <<>> =>
        LET written == depOut.written[1]
            deps == written.dependencies.m
        IN  /\ depIn.json.peerDependencies.has =>
                   \A k \in DOMAIN depIn.json.peerDependencies.m :
                       k \in DOMAIN deps /\ deps[k] = depIn.json.peerDependencies.m[k]
            /\ \A c \in CorePackages :
                   /\ c \in DOMAIN deps
                   /\ deps[c] = IF DeclaredVersion(c) = "none" THEN "latest"
                                ELSE DeclaredVersion(c)
            /\ ~written.devDependencies.has

-----------------------------------------------------------------------------
\* Properties of the working directories (DirSpec)

\* the files extractor e staged are on disk
FilesThere(e) ==
    /\ extractors[e].tempDir \in DOMAIN tmpFs
    /\ e \in tmpFs[extractors[e].tempDir]

\* C25: two extractors created without a tempDir never have the same working
\* directory, and the files of an extractor whose run is in progress are not
\* deleted by the cleanup of the other.
WorkingDirsExclusive ==
    /\ \A e, f \in Extractors :
           (e # f /\ extractors[e].st # "none" /\ extractors[f].st # "none") =>
               extractors[e].tempDir # extractors[f].tempDir
    /\ \A e \in Extractors : extractors[e].st = "running" => FilesThere(e)

-----------------------------------------------------------------------------
\* Properties of saveResults (SaveSpec)

\* the positions of all descriptions in a packages map
PackagePositions(pk) ==
    UNION { { <<k, n>> : n \in 1..Len(pk[k]) } : k \in DOMAIN pk }

\* C15: in every written artifact totalNodes is the length of the nodes list,
\* or the sum of the lengths of the lists of the packages map.
TotalNodesMatchesCollection ==
    /\ svArtifact.kind = "list" => svArtifact.totalNodes = Len(svArtifact.nodes)
    /\ svArtifact.kind = "packages" =>
           svArtifact.totalNodes = Cardinality(PackagePositions(svArtifact.packages))

\* a packages map with lists of different lengths, saved after a failed call
\* that followed the successful one
TotalNodesMatchesCollection_Witness ==
    /\ svArtifact.kind = "packages" /\ svCalls = 2
    /\ DOMAIN svArtifact.packages = {1, 2}
    /\ Len(svArtifact.packages[1]) = 2 /\ Len(svArtifact.packages[2]) = 1

====
